---------------------------- MODULE Spec2Model ----------------------------
(***************************************************************************)
(* A model of three halotools libraries:                                   *)
(*   - utils.array_indexing_manipulations (sum_in_bins and the two index   *)
(*     helpers), exercised by utils/tests/test_array_indexing_manipulations*)
(*   - utils.inverse_transformation_sampling (build_cdf_lookup,            *)
(*     monte_carlo_from_cdf_lookup, rank_order_percentile)                 *)
(*   - empirical_models.profile_models (TrivialProfile)                    *)
(* Every library function is a pure computation; a state of the model is   *)
(* the last call made (its arguments), what it returned or raised, and the *)
(* state that outlives a call: numpy's global random generator and the     *)
(* lookup table most recently built.                                       *)
(* Floating point numbers are modelled as exact rationals <<num, den>>.    *)
(***************************************************************************)
EXTENDS Integers, Sequences, FiniteSets, TLC

(***************************************************************************)
(* Bounds of the model.                                                    *)
(***************************************************************************)
MaxLen == 3      \* longest array passed to the binned-aggregation functions
MaxKey == 3      \* bin keys are drawn from 1..MaxKey
MaxVal == 2      \* values (to be summed, or of a dataset) are drawn from 1..MaxVal
MaxPts == 4      \* npts_lookup_table is drawn from 0..MaxPts
MaxDraws == 2    \* num_draws and the length of an explicit mc_input are at most this
MaxSeed == 2     \* integer seeds are drawn from 1..MaxSeed
RngModulus == 4  \* number of states of the modelled random generator

VARIABLES
    call,        \* the last library call: [op |-> function name, arguments...]
    ret,         \* what it did: [status |-> "ok" or the exception raised, ...]
    table,       \* the CDF lookup table the caller holds, once one is built
    rng,         \* state of numpy's global random generator
    prev,        \* history: outcome of the same sampling call made before
    prof         \* the profile instance the caller holds, once constructed

vars == <<call, ret, table, rng, prev, prof>>

NoCall == [op |-> "none"]
NoRet == [status |-> "none"]
NoTable == [built |-> FALSE]
NoPrev == [status |-> "none"]
NoProfile == [cls |-> "none"]

\* An optional argument left at its default None is <<>>, a given one is <<v>>.
Unspecified == <<>>
Given(v) == <<v>>

SeqsUpTo(S, n) == UNION {[1..k -> S] : k \in 0..n}

Range(s) == {s[i] : i \in 1..Len(s)}

IndexPermutations(n) == {p \in [1..n -> 1..n] : \A i, j \in 1..n : i # j => p[i] # p[j]}

RECURSIVE SumRange(_, _, _)
\* arr[first:last+1].sum() with 0-based first and last
SumRange(arr, first, last) ==
    IF last < first THEN 0 ELSE arr[last + 1] + SumRange(arr, first, last - 1)

IsSortedAscending(arr) == \A j \in 1..(Len(arr) - 1) : arr[j] <= arr[j + 1]

\* The set S of integers as the ascending sequence of its elements.
RECURSIVE SortedSeqOf(_)
SortedSeqOf(S) ==
    IF S = {} THEN <<>>
    ELSE LET m == CHOOSE x \in S : \A y \in S : x <= y
         IN  <<m>> \o SortedSeqOf(S \ {m})

Contains(msg, sub) ==
    \E i \in 1..(Len(msg) - Len(sub) + 1) : SubSeq(msg, i, i + Len(sub) - 1) = sub

(***************************************************************************)
(* utils.array_indexing_manipulations                                      *)
(***************************************************************************)
\* A faulty variant: the leading index 0 is not prepended.
calculate_first_idx_NoLeadingZero(sorted_array) ==
    SortedSeqOf({j \in 1..(Len(sorted_array) - 1) : sorted_array[j + 1] # sorted_array[j]})

\* Index (0-based) of the first element of every run of equal keys.
calculate_first_idx_unique_array_vals(sorted_array) ==
    SortedSeqOf({j \in 0..(Len(sorted_array) - 1) :
                    j = 0 \/ sorted_array[j + 1] # sorted_array[j]})

\* Index (0-based) of the last element of every run of equal keys.
calculate_last_idx_unique_array_vals(sorted_array) ==
    SortedSeqOf({j \in 0..(Len(sorted_array) - 1) :
                    j = Len(sorted_array) - 1 \/ sorted_array[j + 1] # sorted_array[j + 2]})

MsgSameLength ==
    <<"Input", "arr", "and", "sorted_bin_numbers", "must", "have", "same", "length">>

MsgSorted ==
    <<"Input", "sorted_bin_numbers", "array", "must", "be", "sorted", "in",
      "ascending", "order">>

\* The sum of the values filed under bin key k.
RECURSIVE SumOfKey(_, _, _, _)
SumOfKey(arr, bins, k, n) ==
    IF n = 0 THEN 0
    ELSE SumOfKey(arr, bins, k, n - 1) + (IF bins[n] = k THEN arr[n] ELSE 0)

UniqueKeys(bins) == SortedSeqOf({bins[j] : j \in 1..Len(bins)})

\* A faulty variant: running totals, the differences between bins not taken.
BinnedSum_Cumulative(arr, sorted_bin_numbers) ==
    LET keys == UniqueKeys(sorted_bin_numbers)
    IN  [i \in 1..Len(keys) |->
            SumRange([j \in 1..i |-> SumOfKey(arr, sorted_bin_numbers, keys[j], Len(arr))],
                     0, i - 1)]

BinnedSum(arr, sorted_bin_numbers) ==
    LET keys == UniqueKeys(sorted_bin_numbers)
    IN  [i \in 1..Len(keys) |-> SumOfKey(arr, sorted_bin_numbers, keys[i], Len(arr))]

\* A faulty variant: the order of the keys is validated before the lengths.
sum_in_bins_SortCheckFirst(arr, sorted_bin_numbers, testing_mode) ==
    IF testing_mode /\ ~IsSortedAscending(sorted_bin_numbers)
    THEN [status |-> "ValueError", msg |-> MsgSorted]
    ELSE IF Len(arr) # Len(sorted_bin_numbers)
    THEN [status |-> "ValueError", msg |-> MsgSameLength]
    ELSE [status |-> "ok", value |-> BinnedSum(arr, sorted_bin_numbers)]

\* A faulty variant: testing_mode is ignored, the keys are never validated.
sum_in_bins_NeverValidates(arr, sorted_bin_numbers, testing_mode) ==
    IF Len(arr) # Len(sorted_bin_numbers)
    THEN [status |-> "ValueError", msg |-> MsgSameLength]
    ELSE [status |-> "ok", value |-> BinnedSum(arr, sorted_bin_numbers)]

sum_in_bins(arr, sorted_bin_numbers, testing_mode) ==
    IF Len(arr) # Len(sorted_bin_numbers)
    THEN [status |-> "ValueError", msg |-> MsgSameLength]
    ELSE IF testing_mode /\ ~IsSortedAscending(sorted_bin_numbers)
    THEN [status |-> "ValueError", msg |-> MsgSorted]
    ELSE [status |-> "ok", value |-> BinnedSum(arr, sorted_bin_numbers)]

KeyArrays == SeqsUpTo(1..MaxKey, MaxLen)
ValueArrays == SeqsUpTo(1..MaxVal, MaxLen)

\* The caller makes one call of a function of the module.
CalculateFirstIdx ==
    /\ call = NoCall
    /\ \E a \in KeyArrays :
        /\ call' = [op |-> "calculate_first_idx_unique_array_vals", sorted_array |-> a]
        /\ ret' = [status |-> "ok", value |-> calculate_first_idx_unique_array_vals(a)]
    /\ UNCHANGED <<table, rng, prev, prof>>

CalculateLastIdx ==
    /\ call = NoCall
    /\ \E a \in KeyArrays :
        /\ call' = [op |-> "calculate_last_idx_unique_array_vals", sorted_array |-> a]
        /\ ret' = [status |-> "ok", value |-> calculate_last_idx_unique_array_vals(a)]
    /\ UNCHANGED <<table, rng, prev, prof>>

SumInBins ==
    /\ call = NoCall
    /\ \E a \in ValueArrays, b \in KeyArrays, t \in BOOLEAN :
        /\ call' = [op |-> "sum_in_bins", arr |-> a, sorted_bin_numbers |-> b,
                    testing_mode |-> t]
        /\ ret' = sum_in_bins(a, b, t)
    /\ UNCHANGED <<table, rng, prev, prof>>

InitBins ==
    /\ call = NoCall
    /\ ret = NoRet
    /\ table = NoTable
    /\ rng = 0
    /\ prev = NoPrev
    /\ prof = NoProfile

NextBins == CalculateFirstIdx \/ CalculateLastIdx \/ SumInBins

SpecBins == InitBins /\ [][NextBins]_vars

(***************************************************************************)
(* Claims about utils.array_indexing_manipulations                         *)
(***************************************************************************)
NumDistinct(a) == Cardinality(Range(a))

\* C1: for a value sequence and an ascending-sorted bin-key sequence of the
\* same length, sum_in_bins returns one entry per distinct key, and entry i
\* is the sum of the values at indices first_idx[i]..last_idx[i], with
\* first_idx and last_idx the results of the two index helpers on the keys.
C1_SumInBinsMatchesRuns ==
    (/\ call.op = "sum_in_bins"
     /\ Len(call.arr) = Len(call.sorted_bin_numbers)
     /\ IsSortedAscending(call.sorted_bin_numbers))
    => LET first_idx == calculate_first_idx_unique_array_vals(call.sorted_bin_numbers)
           last_idx == calculate_last_idx_unique_array_vals(call.sorted_bin_numbers)
       IN  /\ ret.status = "ok"
           /\ Len(ret.value) = NumDistinct(call.sorted_bin_numbers)
           /\ Len(first_idx) = Len(ret.value)
           /\ Len(last_idx) = Len(ret.value)
           /\ \A i \in 1..Len(ret.value) :
                ret.value[i] = SumRange(call.arr, first_idx[i], last_idx[i])

C1_Witness ==
    /\ call.op = "sum_in_bins"
    /\ call.sorted_bin_numbers = <<1, 1, 2>>
    /\ call.arr = <<1, 2, 2>>
    /\ ret.status = "ok"
    /\ ret.value = <<3, 2>>

PartitionsIntoRuns(arr, first_idx, last_idx) ==
    LET n == Len(first_idx)
    IN  /\ Len(last_idx) = n
        /\ n = NumDistinct(arr)
        /\ first_idx[1] = 0
        /\ last_idx[n] = Len(arr) - 1
        /\ \A i \in 1..n : first_idx[i] <= last_idx[i]
        /\ \A i \in 1..(n - 1) :
            /\ first_idx[i] < first_idx[i + 1]
            /\ last_idx[i] < last_idx[i + 1]
            /\ last_idx[i] < first_idx[i + 1]
            /\ last_idx[i] + 1 = first_idx[i + 1]
            \* the keys of adjacent runs differ
            /\ arr[last_idx[i] + 1] # arr[first_idx[i + 1] + 1]
        \* all keys inside a run are equal
        /\ \A i \in 1..n : \A j \in first_idx[i]..last_idx[i] :
            arr[j + 1] = arr[first_idx[i] + 1]

\* C2: for a non-empty ascending-sorted key array, the results of
\* calculate_first_idx_unique_array_vals and calculate_last_idx_unique_array_vals
\* have one entry per distinct value, are strictly increasing, and partition
\* 0..len(arr)-1 into maximal runs of equal keys.
C2_IndexHelpersPartition ==
    (/\ call.op \in {"calculate_first_idx_unique_array_vals",
                     "calculate_last_idx_unique_array_vals"}
     /\ Len(call.sorted_array) > 0
     /\ IsSortedAscending(call.sorted_array))
    => LET first_idx == IF call.op = "calculate_first_idx_unique_array_vals"
                        THEN ret.value
                        ELSE calculate_first_idx_unique_array_vals(call.sorted_array)
           last_idx == IF call.op = "calculate_last_idx_unique_array_vals"
                       THEN ret.value
                       ELSE calculate_last_idx_unique_array_vals(call.sorted_array)
       IN  /\ ret.status = "ok"
           /\ PartitionsIntoRuns(call.sorted_array, first_idx, last_idx)

C2_Witness ==
    /\ call.op = "calculate_last_idx_unique_array_vals"
    /\ call.sorted_array = <<1, 1, 2>>
    /\ ret.value = <<1, 2>>
    /\ calculate_first_idx_unique_array_vals(call.sorted_array) = <<0, 2>>

\* C3: sum_in_bins called with a value sequence and a bin-key sequence of
\* different lengths raises a ValueError whose message contains "must have
\* same length" and returns no result, whatever the testing mode.
C3_LengthMismatchRaises ==
    (/\ call.op = "sum_in_bins"
     /\ Len(call.arr) # Len(call.sorted_bin_numbers))
    => /\ ret.status = "ValueError"
       /\ Contains(ret.msg, <<"must", "have", "same", "length">>)
       /\ "value" \notin DOMAIN ret

C3_Witness ==
    /\ call.op = "sum_in_bins"
    /\ call.arr = <<1, 2>>
    /\ call.sorted_bin_numbers = <<1, 2, 3>>
    /\ call.testing_mode
    /\ ret.status = "ValueError"

\* C4: sum_in_bins called with testing_mode=True and a bin-key sequence of
\* the right length that is not ascending raises a ValueError whose message
\* contains "must be sorted in ascending order" instead of returning sums.
C4_UnsortedRaisesInTestingMode ==
    (/\ call.op = "sum_in_bins"
     /\ call.testing_mode
     /\ Len(call.arr) = Len(call.sorted_bin_numbers)
     /\ ~IsSortedAscending(call.sorted_bin_numbers))
    => /\ ret.status = "ValueError"
       /\ Contains(ret.msg, <<"must", "be", "sorted", "in", "ascending", "order">>)
       /\ "value" \notin DOMAIN ret

C4_Witness ==
    /\ call.op = "sum_in_bins"
    /\ call.arr = <<1, 2, 2>>
    /\ call.sorted_bin_numbers = <<1, 2, 1>>
    /\ call.testing_mode
    /\ ret.status = "ValueError"
    /\ ret.msg = MsgSorted

(***************************************************************************)
(* Exact rational arithmetic, standing for the float arithmetic of numpy.  *)
(* A rational is <<numerator, denominator>> in lowest terms, with a        *)
(* positive denominator.                                                   *)
(***************************************************************************)
Abs(i) == IF i < 0 THEN -i ELSE i

RECURSIVE GCD(_, _)
GCD(a, b) == IF b = 0 THEN a ELSE GCD(b, a % b)

Rat(n, d) ==
    LET g == GCD(Abs(n), Abs(d))
        s == IF d < 0 THEN -1 ELSE 1
    IN  <<(s * n) \div g, (s * d) \div g>>

RatOfInt(i) == <<i, 1>>
RatAdd(a, b) == Rat(a[1] * b[2] + b[1] * a[2], a[2] * b[2])
RatSub(a, b) == Rat(a[1] * b[2] - b[1] * a[2], a[2] * b[2])
RatMul(a, b) == Rat(a[1] * b[1], a[2] * b[2])
RatDiv(a, b) == Rat(a[1] * b[2], a[2] * b[1])
RatLt(a, b) == a[1] * b[2] < b[1] * a[2]
RatLe(a, b) == a[1] * b[2] <= b[1] * a[2]

(***************************************************************************)
(* numpy functions the module calls                                        *)
(***************************************************************************)
\* np.interp(x, xp, fp) at one point x: linear interpolation through the
\* points (xp[j], fp[j]), constant outside [xp[0], xp[-1]].
\* A faulty variant: outside the data range the nearest segment is continued
\* linearly instead of holding the end value.
InterpAt_Extrapolate(x, xp, fp) ==
    LET n == Len(xp)
        j == IF RatLt(x, xp[1]) THEN 1
             ELSE IF ~RatLt(x, xp[n]) THEN n - 1
             ELSE CHOOSE k \in 1..(n - 1) : RatLe(xp[k], x) /\ RatLt(x, xp[k + 1])
        slope == RatDiv(RatSub(fp[j + 1], fp[j]), RatSub(xp[j + 1], xp[j]))
    IN  RatAdd(RatMul(slope, RatSub(x, xp[j])), fp[j])

InterpAt(x, xp, fp) ==
    LET n == Len(xp)
    IN  IF RatLt(x, xp[1]) THEN fp[1]
        ELSE IF ~RatLt(x, xp[n]) THEN fp[n]
        ELSE LET j == CHOOSE k \in 1..(n - 1) : RatLe(xp[k], x) /\ RatLt(x, xp[k + 1])
                 slope == RatDiv(RatSub(fp[j + 1], fp[j]), RatSub(xp[j + 1], xp[j]))
             IN  RatAdd(RatMul(slope, RatSub(x, xp[j])), fp[j])

Interp(x, xp, fp) == [i \in 1..Len(x) |-> InterpAt(x[i], xp, fp)]

\* np.sort(y) for an array of integers.
RECURSIVE NpSort(_)
NpSort(y) ==
    IF Len(y) = 0 THEN <<>>
    ELSE LET i == CHOOSE k \in 1..Len(y) :
                    /\ \A l \in 1..Len(y) : y[k] <= y[l]
                    /\ \A l \in 1..(k - 1) : y[l] # y[k]
             others == [l \in 1..(Len(y) - 1) |-> IF l < i THEN y[l] ELSE y[l + 1]]
         IN  <<y[i]>> \o NpSort(others)

\* np.argsort(y) with the default kind (an unstable quicksort): any index
\* array that puts y in ascending order; equal elements come in any order.
\* Indices are 1-based here.
ArgSorts(y) ==
    {idx \in IndexPermutations(Len(y)) :
        \A k \in 1..(Len(y) - 1) : y[idx[k]] <= y[idx[k + 1]]}

\* The state np.random.seed(seed) puts the generator in.
SeedState(seed) == seed % RngModulus

\* One draw of np.random.rand from state s: the value in [0, 1) and the next state.
RandValue(s) == Rat(s, RngModulus)
RandNext(s) == (s + 1) % RngModulus

\* np.random.rand(n) from state s.
RECURSIVE RandArray(_, _)
RandArray(s, n) == IF n = 0 THEN <<>> ELSE <<RandValue(s)>> \o RandArray(RandNext(s), n - 1)

\* A faulty variant: the seed is not applied, the draws continue the global stream.
RngContextStates_Unseeded(seed, global) == {global}

\* astropy's NumpyRNGContext(seed): the states the generator may be in inside
\* the with-block. An integer seed fixes the state; seed=None reseeds from the
\* operating system's entropy. The global state is restored on exit.
RngContextStates(seed, global) ==
    IF seed = Unspecified THEN 0..(RngModulus - 1) ELSE {SeedState(seed[1])}

(***************************************************************************)
(* utils.array_utils                                                       *)
(***************************************************************************)
\* unsorting_indices(sorted_indices): the indices that undo the sort.
unsorting_indices(sorted_indices) ==
    [i \in 1..Len(sorted_indices) |->
        CHOOSE k \in 1..Len(sorted_indices) : sorted_indices[k] = i]

(***************************************************************************)
(* utils.inverse_transformation_sampling                                   *)
(***************************************************************************)
\* A faulty variant: i/npts, which reaches 1.
_sorted_rank_order_array_OverNpts(npts) == [i \in 1..npts |-> Rat(i, npts)]

_sorted_rank_order_array(npts) == [i \in 1..npts |-> Rat(i, npts + 1)]

Max(a, b) == IF a >= b THEN a ELSE b

build_cdf_lookup(y, npts_lookup_table) ==
    IF ~(Len(y) > 1)
    THEN [status |-> "AssertionError", msg |-> "Input y has only one element"]
    ELSE LET npts_y == Len(y)
             warned == npts_y < npts_lookup_table
             npts == Max(npts_lookup_table, npts_y)
             sorted_y == NpSort(y)
             normed_rank_order == _sorted_rank_order_array(npts_y)
             x_table == _sorted_rank_order_array(npts)
             y_table == Interp(x_table, normed_rank_order,
                               [i \in 1..npts_y |-> RatOfInt(sorted_y[i])])
         IN  [status |-> "ok", x_table |-> x_table, y_table |-> y_table,
              warned |-> warned]

\* A faulty variant: the ranks are indexed by the sorting indices themselves.
rank_order_percentile_NoUnsort(y, idx_sorted) ==
    LET ranks == _sorted_rank_order_array(Len(y))
    IN  [i \in 1..Len(y) |-> ranks[idx_sorted[i]]]

\* idx_sorted is what np.argsort(y) returned.
rank_order_percentile(y, idx_sorted) ==
    LET ranks == _sorted_rank_order_array(Len(y))
        unsort == unsorting_indices(idx_sorted)
    IN  [i \in 1..Len(y) |-> ranks[unsort[i]]]

\* A faulty variant: num_draws given with an explicit mc_input is ignored.
monte_carlo_NumDrawsIgnored(x_table, y_table, mc_input, num_draws, s) ==
    IF mc_input.kind = "random"
    THEN IF num_draws = Unspecified
         THEN [status |-> "ValueError", msg |-> "num_draws must be specified"]
         ELSE [status |-> "ok",
               value |-> Interp(RandArray(s, num_draws[1]), x_table, y_table)]
    ELSE [status |-> "ok", value |-> Interp(mc_input.values, x_table, y_table)]

\* mc_input is [kind |-> "random"] when left at its default 'random', else
\* [kind |-> "array" or "scalar", values |-> its elements]; s is the state of
\* the generator inside the NumpyRNGContext block.
monte_carlo_from_cdf_lookup(x_table, y_table, mc_input, num_draws, s) ==
    IF mc_input.kind = "random"
    THEN IF num_draws = Unspecified
         THEN [status |-> "ValueError", msg |-> "num_draws must be specified"]
         ELSE [status |-> "ok",
               value |-> Interp(RandArray(s, num_draws[1]), x_table, y_table)]
    ELSE IF num_draws # Unspecified
         THEN [status |-> "ValueError", msg |-> "num_draws should be left unspecified"]
         ELSE [status |-> "ok", value |-> Interp(mc_input.values, x_table, y_table)]

Datasets == SeqsUpTo(1..MaxVal, MaxLen)
RankInputs == SeqsUpTo(1..MaxLen, MaxLen)
McValues == {<<0, 1>>, <<1, 2>>}
McInputs ==
    {[kind |-> "random"]}
    \cup {[kind |-> "array", values |-> v] : v \in SeqsUpTo(McValues, MaxDraws)}
    \cup {[kind |-> "scalar", values |-> <<v>>] : v \in McValues}
OptionalDraws == {Unspecified} \cup {Given(n) : n \in 0..MaxDraws}
OptionalSeeds == {Unspecified} \cup {Given(n) : n \in 1..MaxSeed}

BuildCdfLookup ==
    /\ call = NoCall
    /\ \E y \in Datasets, npts \in 0..MaxPts :
        /\ call' = [op |-> "build_cdf_lookup", y |-> y, npts_lookup_table |-> npts]
        /\ ret' = build_cdf_lookup(y, npts)
        /\ table' = IF ret'.status = "ok"
                    THEN [built |-> TRUE, x_table |-> ret'.x_table, y_table |-> ret'.y_table]
                    ELSE table
    /\ UNCHANGED <<rng, prev, prof>>

RankOrderPercentile ==
    /\ call = NoCall
    /\ \E y \in RankInputs : \E idx \in ArgSorts(y) :
        /\ call' = [op |-> "rank_order_percentile", y |-> y]
        /\ ret' = [status |-> "ok", value |-> rank_order_percentile(y, idx)]
    /\ UNCHANGED <<table, rng, prev, prof>>

\* The first sampling call on a freshly built table.
MonteCarloFromCdfLookup ==
    /\ call.op = "build_cdf_lookup"
    /\ table.built
    /\ \E mc \in McInputs, n \in OptionalDraws, seed \in OptionalSeeds :
       \E s \in RngContextStates(seed, rng) :
        /\ call' = [op |-> "monte_carlo_from_cdf_lookup", mc_input |-> mc,
                    num_draws |-> n, seed |-> seed]
        /\ ret' = monte_carlo_from_cdf_lookup(table.x_table, table.y_table, mc, n, s)
    /\ UNCHANGED <<table, rng, prev, prof>>

\* The caller repeats its last sampling call with the same arguments.
MonteCarloSameCall ==
    /\ call.op = "monte_carlo_from_cdf_lookup"
    /\ \E s \in RngContextStates(call.seed, rng) :
        ret' = monte_carlo_from_cdf_lookup(table.x_table, table.y_table,
                                           call.mc_input, call.num_draws, s)
    /\ prev' = [status |-> ret.status, ret |-> ret, rng |-> rng]
    /\ UNCHANGED <<call, table, rng, prof>>

\* Other code draws from numpy's global generator between two sampling calls.
NumpyRandomRand ==
    /\ call.op = "monte_carlo_from_cdf_lookup"
    /\ rng' = RandNext(rng)
    /\ UNCHANGED <<call, ret, table, prev, prof>>

InitCdf ==
    /\ call = NoCall
    /\ ret = NoRet
    /\ table = NoTable
    /\ rng \in 0..(RngModulus - 1)
    /\ prev = NoPrev
    /\ prof = NoProfile

NextCdf ==
    \/ BuildCdfLookup
    \/ RankOrderPercentile
    \/ MonteCarloFromCdfLookup
    \/ MonteCarloSameCall
    \/ NumpyRandomRand

SpecCdf == InitCdf /\ [][NextCdf]_vars

(***************************************************************************)
(* Claims about utils.inverse_transformation_sampling                      *)
(***************************************************************************)
Raised(r) == r.status \notin {"ok", "none"} /\ "value" \notin DOMAIN r

\* C5: monte_carlo_from_cdf_lookup accepts exactly one of mc_input and
\* num_draws: with an explicit mc_input and num_draws given it raises, with
\* mc_input left as 'random' and num_draws not given it raises, and in both
\* cases no samples are returned; with exactly one given it returns one
\* sample per requested draw (num_draws samples, or one per element of
\* mc_input).
C5_ExactlyOneInput ==
    call.op = "monte_carlo_from_cdf_lookup"
    => LET explicit == call.mc_input.kind # "random"
           draws_given == call.num_draws # Unspecified
       IN  /\ (explicit /\ draws_given) => Raised(ret)
           /\ (~explicit /\ ~draws_given) => Raised(ret)
           /\ (~explicit /\ draws_given)
                => ret.status = "ok" /\ Len(ret.value) = call.num_draws[1]
           /\ (explicit /\ ~draws_given)
                => ret.status = "ok" /\ Len(ret.value) = Len(call.mc_input.values)

C5_Witness ==
    /\ call.op = "monte_carlo_from_cdf_lookup"
    /\ call.mc_input = [kind |-> "array", values |-> <<<<1, 2>>, <<0, 1>>>>]
    /\ call.num_draws = Given(2)
    /\ ret.status = "ValueError"

IsRankOf(y, i, k) ==
    /\ Cardinality({j \in 1..Len(y) : y[j] < y[i]}) + 1 <= k
    /\ k <= Cardinality({j \in 1..Len(y) : y[j] <= y[i]})

\* Values in (0,1), by the i/(n+1) convention, matching the rank of each element.
RankPercentiles(y, p) ==
    /\ Len(p) = Len(y)
    /\ \A i \in 1..Len(y) : RatLt(<<0, 1>>, p[i]) /\ RatLt(p[i], <<1, 1>>)
    /\ \A i \in 1..Len(y) : \E k \in 1..Len(y) : p[i] = Rat(k, Len(y) + 1) /\ IsRankOf(y, i, k)
    /\ \A i, j \in 1..Len(y) : y[i] < y[j] => RatLt(p[i], p[j])
    /\ \A i, j \in 1..Len(y) : i # j => p[i] # p[j]

\* The result of every permuted input is the same permutation of the result p.
CoPermutes(y, p) ==
    \A sigma \in IndexPermutations(Len(y)) :
        LET permuted == [i \in 1..Len(y) |-> y[sigma[i]]]
        IN  \A idx \in ArgSorts(permuted) :
                rank_order_percentile(permuted, idx) = [i \in 1..Len(y) |-> p[sigma[i]]]

PairwiseDistinct(y) == \A i, j \in 1..Len(y) : i # j => y[i] # y[j]

\* C6 as stated: for all y, rank_order_percentile(y) returns values in (0,1)
\* using the i/(n+1) convention, monotonically matching the rank of each
\* element, and the result of a permuted input equals the same permutation of
\* the result of the original input.
C6_Original ==
    call.op = "rank_order_percentile"
    => /\ ret.status = "ok"
       /\ RankPercentiles(call.y, ret.value)
       /\ CoPermutes(call.y, ret.value)

\* C6 (amended): for all y, rank_order_percentile(y) returns values in (0,1)
\* using the i/(n+1) convention, monotonically matching the rank of each
\* element; for y whose elements are pairwise distinct, the result of a
\* permuted input equals the same permutation of the result of the original.
C6_RankOrderPercentile ==
    call.op = "rank_order_percentile"
    => /\ ret.status = "ok"
       /\ RankPercentiles(call.y, ret.value)
       /\ PairwiseDistinct(call.y) => CoPermutes(call.y, ret.value)

C6_Witness ==
    /\ call.op = "rank_order_percentile"
    /\ call.y = <<2, 3, 1>>
    /\ ret.value = <<<<1, 2>>, <<3, 4>>, <<1, 4>>>>

\* C7: in build_cdf_lookup, if npts_lookup_table < len(y) the table size is
\* raised to len(y) and a warning is issued; otherwise the table has exactly
\* npts_lookup_table points and no warning is issued.
C7_WarnsWhenRaised ==
    (call.op = "build_cdf_lookup" /\ ret.status = "ok")
    => IF call.npts_lookup_table < Len(call.y)
       THEN Len(ret.x_table) = Len(call.y) /\ ret.warned
       ELSE Len(ret.x_table) = call.npts_lookup_table /\ ~ret.warned

StrictlyIncreasing(x) == \A i \in 1..(Len(x) - 1) : RatLt(x[i], x[i + 1])
NonDecreasing(x) == \A i \in 1..(Len(x) - 1) : RatLe(x[i], x[i + 1])

\* C8: every table (x_table, y_table) build_cdf_lookup returns for an input
\* of at least 2 elements has len(x_table) = len(y_table) >= 2, x_table
\* strictly increasing with every entry strictly inside (0,1), and y_table
\* non-decreasing.
C8_TableInvariant ==
    (call.op = "build_cdf_lookup" /\ Len(call.y) >= 2)
    => /\ ret.status = "ok"
       /\ Len(ret.x_table) = Len(ret.y_table)
       /\ Len(ret.x_table) >= 2
       /\ StrictlyIncreasing(ret.x_table)
       /\ \A i \in 1..Len(ret.x_table) :
            RatLt(<<0, 1>>, ret.x_table[i]) /\ RatLt(ret.x_table[i], <<1, 1>>)
       /\ NonDecreasing(ret.y_table)

C8_Witness ==
    /\ call.op = "build_cdf_lookup"
    /\ call.y = <<2, 1, 2>>
    /\ call.npts_lookup_table = 4
    /\ ret.status = "ok"
    /\ ret.x_table = <<<<1, 5>>, <<2, 5>>, <<3, 5>>, <<4, 5>>>>
    /\ ret.y_table = <<<<1, 1>>, <<8, 5>>, <<2, 1>>, <<2, 1>>>>

\* C9: two calls of monte_carlo_from_cdf_lookup with mc_input='random', the
\* same num_draws, the same integer seed and the same table return identical
\* output arrays, whatever random draws happened between the two calls.
C9_SeededDeterministic ==
    (/\ call.op = "monte_carlo_from_cdf_lookup"
     /\ call.mc_input.kind = "random"
     /\ call.seed # Unspecified
     /\ call.num_draws # Unspecified
     /\ prev.status # "none")
    => /\ prev.status = "ok"
       /\ ret.status = "ok"
       /\ ret.value = prev.ret.value

C9_Witness ==
    /\ call.op = "monte_carlo_from_cdf_lookup"
    /\ call.mc_input.kind = "random"
    /\ call.seed = Given(1)
    /\ call.num_draws = Given(2)
    /\ prev.status = "ok"
    /\ prev.rng # rng
    /\ ret.status = "ok"
    /\ Len(ret.value) = 2
    /\ ret.value[1] # ret.value[2]

WithinDataRanks(x, n) == RatLe(Rat(1, n + 1), x) /\ RatLe(x, Rat(n, n + 1))

NumArgs(S) ==
    {[kind |-> "scalar", values |-> <<v>>] : v \in S}
    \cup {[kind |-> "array", values |-> v] : v \in SeqsUpTo(S, MaxLen)}

RadiusValues == {<<-1, 1>>, <<0, 1>>, <<1, 2>>, <<2, 1>>}
MassValues == {<<1, 1>>, <<5, 2>>}

\* AnalyticDensityProf.__init__ as TrivialProfile.__init__ calls it.
TrivialProfile_init ==
    [cls |-> "TrivialProfile", prof_param_keys |-> <<>>, publications |-> <<>>,
     param_dict |-> <<>>]

\* A faulty variant: the arguments are mixed up.
TrivialProfile_enclosed_mass_ReturnsRadius(radius, mass) == radius

TrivialProfile_enclosed_mass(radius, mass) == mass

ConstructTrivialProfile ==
    /\ prof = NoProfile
    /\ prof' = TrivialProfile_init
    /\ UNCHANGED <<call, ret, table, rng, prev>>

TrivialEnclosedMass ==
    /\ prof.cls = "TrivialProfile"
    /\ call = NoCall
    /\ \E radius \in NumArgs(RadiusValues), mass \in NumArgs(MassValues) :
        /\ call' = [op |-> "enclosed_mass", radius |-> radius, mass |-> mass]
        /\ ret' = [status |-> "ok", value |-> TrivialProfile_enclosed_mass(radius, mass)]
    /\ UNCHANGED <<table, rng, prev, prof>>

\* Floating-point values: a rational <<n, d>> with d > 0, or one of the three
\* IEEE values below.  Rounding and the sign of zero are not modelled.
PosInf == <<1, 0>>
NegInf == <<-1, 0>>
NaN == <<0, 0>>
Zero == <<0, 1>>
One == <<1, 1>>

IsFinite(a) == a[2] # 0
IsNaN(a) == a = NaN
Sign(a) == IF a[1] > 0 THEN 1 ELSE IF a[1] < 0 THEN -1 ELSE 0
FNeg(a) == <<-a[1], a[2]>>

FAdd(a, b) ==
    IF IsNaN(a) \/ IsNaN(b) THEN NaN
    ELSE IF IsFinite(a) /\ IsFinite(b) THEN RatAdd(a, b)
    ELSE IF IsFinite(b) THEN a
    ELSE IF IsFinite(a) THEN b
    ELSE IF a = b THEN a ELSE NaN

FSub(a, b) == FAdd(a, FNeg(b))

FMul(a, b) ==
    IF IsNaN(a) \/ IsNaN(b) THEN NaN
    ELSE IF IsFinite(a) /\ IsFinite(b) THEN RatMul(a, b)
    ELSE IF Sign(a) * Sign(b) = 0 THEN NaN
    ELSE <<Sign(a) * Sign(b), 0>>

\* Division of numpy arrays: x/0 is inf (with a RuntimeWarning), 0/0 is nan.
FDiv(a, b) ==
    IF IsNaN(a) \/ IsNaN(b) THEN NaN
    ELSE IF IsFinite(a) /\ IsFinite(b)
         THEN IF b[1] # 0 THEN RatDiv(a, b)
              ELSE IF a[1] = 0 THEN NaN ELSE <<Sign(a), 0>>
    ELSE IF IsFinite(a) THEN Zero
    ELSE IF ~IsFinite(b) THEN NaN
    ELSE <<Sign(a) * (IF Sign(b) < 0 THEN -1 ELSE 1), 0>>

\* a > b and a < b of floats; every comparison with nan is false.
FGt(a, b) ==
    IF IsNaN(a) \/ IsNaN(b) THEN FALSE
    ELSE IF IsFinite(a) /\ IsFinite(b) THEN RatLt(b, a)
    ELSE IF a = b THEN FALSE
    ELSE a = PosInf \/ b = NegInf

FLt(a, b) == FGt(b, a)

\* np.log.  The logarithm of a positive rational a is represented by the first
\* two terms of 2*(z + z^3/3 + z^5/5 + ...), z = (a-1)/(a+1): a rational that is
\* 0 at a = 1, increasing in a, and of the sign of ln(a).
NpLog(a) ==
    IF IsNaN(a) THEN NaN
    ELSE IF a = PosInf THEN PosInf
    ELSE IF a = NegInf THEN NaN
    ELSE IF a[1] < 0 THEN NaN
    ELSE IF a[1] = 0 THEN NegInf
    ELSE LET z == RatDiv(RatSub(a, One), RatAdd(a, One))
             z3 == RatMul(z, RatMul(z, z))
         IN  RatMul(<<2, 1>>, RatAdd(z, RatDiv(z3, <<3, 1>>)))

\* array_utils.convert_to_ndarray: a scalar becomes an array of one element.
convert_to_ndarray(a) == a.values

MaxProfLen == 2  \* longest array passed to the NFW profile functions

\* Scalar and array arguments of the NFW profile functions.
ProfileArgs(S) ==
    {[kind |-> "scalar", values |-> <<v>>] : v \in S}
    \cup {[kind |-> "array", values |-> v] : v \in SeqsUpTo(S, MaxProfLen)}

XValues == {<<-1, 2>>, <<0, 1>>, <<1, 2>>, <<1, 1>>, <<2, 1>>}
ConcValues == {<<0, 1>>, <<1, 1>>, <<2, 1>>, <<5, 1>>}

NFWProfile_init ==
    [cls |-> "NFWProfile", prof_param_keys |-> <<"conc_NFWmodel">>,
     publications |-> <<"arXiv:9611107", "arXiv:0002395", "arXiv:1402.7073">>,
     param_dict |-> <<>>]

\* denominator of NFWProfile.g: ln(1+x) - x/(1+x).
NFWProfile_g_denominator(x) ==
    FSub(NpLog(FAdd(One, x)), FDiv(x, FAdd(One, x)))

\* A faulty variant: the reciprocal is forgotten.
NFWProfile_g_NoReciprocal(x) == NFWProfile_g_denominator(x)

NFWProfile_g(x) == FDiv(One, NFWProfile_g_denominator(x))

\* self.g(conc) / self.g(x*conc), for one element.
MassFraction(x, conc) == FDiv(NFWProfile_g(conc), NFWProfile_g(FMul(x, conc)))

MsgConcLength ==
    <<"If", "passing", "an", "array", "of", "concentrations", "to",
      "cumulative_mass_PDF,", "the", "array", "must", "have", "the", "same",
      "length", "as", "the", "input", "array", "of", "radial", "positions">>

NFWProfile_cumulative_mass_PDF(x, conc) ==
    LET x0 == convert_to_ndarray(x)
        x1 == [i \in 1..Len(x0) |-> IF FGt(x0[i], One) THEN One ELSE x0[i]]
        conc1 == convert_to_ndarray(conc)
    IN  IF Len(x1) # Len(conc1)
        THEN [status |-> "HalotoolsError", msg |-> MsgConcLength]
        ELSE [status |-> "ok",
              value |-> [i \in 1..Len(x1) |-> MassFraction(x1[i], conc1[i])]]

ConstructNFWProfile ==
    /\ prof = NoProfile
    /\ prof' = NFWProfile_init
    /\ UNCHANGED <<call, ret, table, rng, prev>>

CumulativeMassPDF ==
    /\ prof.cls = "NFWProfile"
    /\ call = NoCall
    /\ \E x \in ProfileArgs(XValues), conc \in ProfileArgs(ConcValues) :
        /\ call' = [op |-> "cumulative_mass_PDF", x |-> x, conc |-> conc]
        /\ ret' = NFWProfile_cumulative_mass_PDF(x, conc)
    /\ UNCHANGED <<table, rng, prev, prof>>

\* NFWProfile.conc_NFWmodel: concentration stands for the value that
\* compute_concentration (the concentration-mass collaborator) returns for the
\* keyword arguments of the call.
NFWProfile_conc_NFWmodel(self, concentration) == concentration

BiasValues == {<<1, 2>>, <<2, 1>>}

BiasedNFWProfile_init ==
    [NFWProfile_init EXCEPT
        !.cls = "BiasedNFWProfile",
        !.param_dict = [conc_NFWmodel_bias |-> One]]

\* A faulty variant: the bias of construction time is used.
BiasedNFWProfile_conc_NFWmodel_InitialBias(self, concentration) ==
    FMul(BiasedNFWProfile_init.param_dict.conc_NFWmodel_bias,
         NFWProfile_conc_NFWmodel(self, concentration))

BiasedNFWProfile_conc_NFWmodel(self, concentration) ==
    FMul(self.param_dict.conc_NFWmodel_bias,
         NFWProfile_conc_NFWmodel(self, concentration))

ConstructBiasedNFWProfile ==
    /\ prof = NoProfile
    /\ prof' = BiasedNFWProfile_init
    /\ UNCHANGED <<call, ret, table, rng, prev>>

\* Other code stores a new value in param_dict['conc_NFWmodel_bias'].
UpdateParamDict ==
    /\ prof.cls = "BiasedNFWProfile"
    /\ call = NoCall
    /\ \E bias \in BiasValues :
        prof' = [prof EXCEPT !.param_dict.conc_NFWmodel_bias = bias]
    /\ UNCHANGED <<call, ret, table, rng, prev>>

ConcNFWmodel ==
    /\ prof.cls \in {"NFWProfile", "BiasedNFWProfile"}
    /\ call = NoCall
    /\ \E concentration \in ConcValues :
        /\ call' = [op |-> "conc_NFWmodel", compute_concentration |-> concentration]
        /\ ret' = [status |-> "ok",
                   value |-> IF prof.cls = "BiasedNFWProfile"
                             THEN BiasedNFWProfile_conc_NFWmodel(prof, concentration)
                             ELSE NFWProfile_conc_NFWmodel(prof, concentration)]
    /\ UNCHANGED <<table, rng, prev, prof>>

\* newtonG.value: the gravitational constant, a positive number.
NewtonG == <<43, 10000>>

\* AnalyticDensityProf.gravitational_potential_radial_gradient of a
\* TrivialProfile, for a scalar mass.  Between Python floats a division by
\* zero raises ZeroDivisionError; between numpy arrays it yields inf.
TrivialProfile_gravitational_potential_radial_gradient(radius, mass) ==
    LET enclosed_mass == TrivialProfile_enclosed_mass(radius, mass).values[1]
        r == radius.values
        squared == [i \in 1..Len(r) |-> FMul(r[i], r[i])]
    IN  IF radius.kind = "scalar" /\ squared[1] = Zero
        THEN [status |-> "ZeroDivisionError"]
        ELSE [status |-> "ok",
              value |-> [kind |-> radius.kind,
                         values |-> [i \in 1..Len(r) |->
                             FDiv(FMul(NewtonG, enclosed_mass), squared[i])]]]

TrivialGravitationalPotentialRadialGradient ==
    /\ prof.cls = "TrivialProfile"
    /\ call = NoCall
    /\ \E radius \in NumArgs(RadiusValues), m \in MassValues :
        LET mass == [kind |-> "scalar", values |-> <<m>>]
        IN  /\ call' = [op |-> "gravitational_potential_radial_gradient",
                        radius |-> radius, mass |-> mass]
            /\ ret' = TrivialProfile_gravitational_potential_radial_gradient(radius, mass)
    /\ UNCHANGED <<table, rng, prev, prof>>

\* (4*pi/3) * density_threshold * halo_mass_to_halo_radius(mass)^3: the halo
\* radius is the radius within which the mean density is density_threshold.
ThresholdSphereMass(mass) == mass

\* 3 times the integral over [0, x] of dimensionless_mass_density(t, conc)*t^2,
\* in closed form.  The density is (conc^3/(3*g(conc))) / (conc*t*(1+conc*t)^2),
\* whose integral is (1/g(conc)) * (ln(1+conc*x) - conc*x/(1+conc*x)).
NFWProfile_dimensionless_mass_integral(x, conc) ==
    FMul(FDiv(One, NFWProfile_g(conc)), NFWProfile_g_denominator(FMul(conc, x)))

\* AnalyticDensityProf.enclosed_mass: for each radius the integral of
\* 4*pi*r^2*mass_density(r) over [0, radius], which the quadrature returns to a
\* relative error of 1e-5.  Radii are in units of the halo radius of the mass.
AnalyticDensityProf_enclosed_mass(radius, mass, conc) ==
    LET r == convert_to_ndarray(radius)
    IN  [i \in 1..Len(r) |->
            FMul(ThresholdSphereMass(mass),
                 NFWProfile_dimensionless_mass_integral(r[i], conc))]

\* NFWProfile defines no enclosed_mass of its own (the override is commented
\* out), so the method of the base class is the one called.
NFWProfile_enclosed_mass(radius, mass, conc) ==
    AnalyticDensityProf_enclosed_mass(radius, mass, conc)

ScaledRadiusValues == {<<1, 2>>, <<1, 1>>, <<2, 1>>}
PositiveConcValues == {conc \in ConcValues : FGt(conc, Zero)}

NFWEnclosedMass ==
    /\ prof.cls = "NFWProfile"
    /\ call = NoCall
    /\ \E radius \in ProfileArgs(ScaledRadiusValues), mass \in MassValues,
          conc \in PositiveConcValues :
        /\ call' = [op |-> "enclosed_mass", radius |-> radius, mass |-> mass,
                    conc |-> conc]
        /\ ret' = [status |-> "ok",
                   value |-> NFWProfile_enclosed_mass(radius, mass, conc)]
    /\ UNCHANGED <<table, rng, prev, prof>>

InitProfile ==
    /\ call = NoCall
    /\ ret = NoRet
    /\ table = NoTable
    /\ rng = 0
    /\ prev = NoPrev
    /\ prof = NoProfile

NextProfile ==
    \/ ConstructTrivialProfile
    \/ TrivialEnclosedMass
    \/ ConstructNFWProfile
    \/ CumulativeMassPDF
    \/ ConstructBiasedNFWProfile
    \/ UpdateParamDict
    \/ ConcNFWmodel
    \/ TrivialGravitationalPotentialRadialGradient
    \/ NFWEnclosedMass

SpecProfile == InitProfile /\ [][NextProfile]_vars

(***************************************************************************)
(* Claims about empirical_models.profile_models                            *)
(***************************************************************************)
AllPositive(a) == \A i \in 1..Len(a.values) : RatLt(<<0, 1>>, a.values[i])

\* C10: TrivialProfile.enclosed_mass(r, mass) returns exactly the input mass
\* for any radius r > 0, independent of r.
C10_TrivialEnclosedMass ==
    (/\ prof.cls = "TrivialProfile"
     /\ call.op = "enclosed_mass"
     /\ AllPositive(call.radius))
    => /\ ret.status = "ok"
       /\ ret.value = call.mass

C10_Witness ==
    /\ prof.cls = "TrivialProfile"
    /\ call.op = "enclosed_mass"
    /\ call.radius = [kind |-> "array", values |-> <<<<1, 2>>, <<2, 1>>>>]
    /\ call.mass = [kind |-> "scalar", values |-> <<<<5, 2>>>>]
    /\ ret.value = [kind |-> "scalar", values |-> <<<<5, 2>>>>]

IsOk(r) == r.status = "ok"

\* C11 as stated: NFWProfile.cumulative_mass_PDF clamps x to [0,1]: an x > 1 is
\* evaluated as x = 1, an x < 0 is evaluated as x = 0, and the returned mass
\* fraction lies in [0,1].
C11_ClampsToUnitInterval ==
    (call.op = "cumulative_mass_PDF" /\ IsOk(ret))
    => \A i \in 1..Len(ret.value) :
         LET x == call.x.values[i]
             conc == call.conc.values[i]
         IN  FGt(conc, Zero)
             => /\ FGt(x, One) => ret.value[i] = MassFraction(One, conc)
                /\ FLt(x, Zero) => ret.value[i] = MassFraction(Zero, conc)
                /\ ~FLt(ret.value[i], Zero)
                /\ ~FGt(ret.value[i], One)
                /\ ~IsNaN(ret.value[i])

\* C12 as stated: cumulative_mass_PDF(x, conc) fails with a shape-mismatch
\* error whose message names the two array arguments exactly when x and conc are
\* both arrays of different lengths; a scalar conc with an array x of any length
\* is accepted and yields one value per element of x.
C12_ShapeMismatchOnlyForArrays ==
    call.op = "cumulative_mass_PDF"
    => /\ ~IsOk(ret)
            <=> /\ call.x.kind = "array"
                /\ call.conc.kind = "array"
                /\ Len(call.x.values) # Len(call.conc.values)
       /\ ~IsOk(ret)
            => /\ ret.status = "HalotoolsError"
               /\ Contains(ret.msg, <<"concentrations">>)
               /\ Contains(ret.msg, <<"radial", "positions">>)
       /\ (call.conc.kind = "scalar" /\ call.x.kind = "array")
            => /\ IsOk(ret)
               /\ Len(ret.value) = Len(call.x.values)

\* C13: for every concentration c > 0, cumulative_mass_PDF(1.0, c) is 1.0 and
\* cumulative_mass_PDF(0, c) is 0, each returned as a value and not as an error
\* or an undefined result.
C13_BoundaryValues ==
    (/\ call.op = "cumulative_mass_PDF"
     /\ Len(call.x.values) = Len(call.conc.values))
    => /\ IsOk(ret)
       /\ \A i \in 1..Len(call.x.values) :
            FGt(call.conc.values[i], Zero)
            => /\ call.x.values[i] = One => ret.value[i] = One
               /\ call.x.values[i] = Zero => ret.value[i] = Zero

C13_Witness ==
    /\ call.op = "cumulative_mass_PDF"
    /\ call.x = [kind |-> "array", values |-> <<Zero, One>>]
    /\ call.conc = [kind |-> "array", values |-> <<<<5, 1>>, <<2, 1>>>>]
    /\ ret = [status |-> "ok", value |-> <<Zero, One>>]

\* C14: BiasedNFWProfile.conc_NFWmodel returns
\* param_dict['conc_NFWmodel_bias'] times what NFWProfile.conc_NFWmodel returns
\* for the same arguments; the bias is 1.0 right after construction; after any
\* sequence of in-place updates of param_dict the next call uses the value
\* stored last, with no reconstruction.
C14_BiasedConcentration ==
    /\ [](/\ (prof.cls = "BiasedNFWProfile" /\ call.op = "conc_NFWmodel")
             => ret = [status |-> "ok",
                       value |-> FMul(prof.param_dict.conc_NFWmodel_bias,
                                      NFWProfile_conc_NFWmodel(prof,
                                          call.compute_concentration))]
          /\ (prof.cls = "NFWProfile" /\ call.op = "conc_NFWmodel")
             => ret = [status |-> "ok", value |-> call.compute_concentration])
    /\ [][(prof = NoProfile /\ prof'.cls = "BiasedNFWProfile")
            => prof'.param_dict.conc_NFWmodel_bias = One]_vars
    /\ [][(prof.cls = "BiasedNFWProfile" /\ prof' # prof)
            => prof'.cls = "BiasedNFWProfile"]_vars

C14_Witness ==
    /\ prof.cls = "BiasedNFWProfile"
    /\ prof.param_dict.conc_NFWmodel_bias = <<1, 2>>
    /\ call = [op |-> "conc_NFWmodel", compute_concentration |-> <<5, 1>>]
    /\ ret = [status |-> "ok", value |-> <<5, 2>>]

\* C15 as stated: enclosed_mass and gravitational_potential_radial_gradient of
\* a profile (circular_velocity likewise) fail with an error when a requested
\* radius is negative or zero; they never return a value for such a radius.
C15_NonPositiveRadiusRaises ==
    (/\ call.op \in {"enclosed_mass", "gravitational_potential_radial_gradient"}
     /\ \E i \in 1..Len(call.radius.values) : ~FGt(call.radius.values[i], Zero))
    => ~IsOk(ret)

\* C16 as stated: NFWProfile.enclosed_mass(radius, mass, conc) is the closed
\* form mass * cumulative_mass_PDF(radius / R_halo, conc), and at R_halo it
\* equals the total halo mass.
C16_ClosedFormEnclosedMass ==
    (prof.cls = "NFWProfile" /\ call.op = "enclosed_mass")
    => /\ IsOk(ret)
       /\ \A i \in 1..Len(call.radius.values) :
            LET x == [kind |-> "scalar", values |-> <<call.radius.values[i]>>]
                conc == [kind |-> "scalar", values |-> <<call.conc>>]
                fraction == NFWProfile_cumulative_mass_PDF(x, conc).value[1]
            IN  /\ ret.value[i] = FMul(call.mass, fraction)
                /\ call.radius.values[i] = One => ret.value[i] = call.mass

=============================================================================
